---- MODULE Spec2Model ----
(***************************************************************************)
(* planner2ics (src/app.py): a work planning (PDF lines or a table) is     *)
(* turned into calendar events.  Three components are modelled:            *)
(*   - the line-oriented extractor  parse_pdf_schedule   (SpecPdf)         *)
(*   - the event builder            df_to_ics            (SpecIcs)         *)
(*   - the column reconciler        guess_columns, pick, _auto_title,      *)
(*                                  _norm_time           (SpecCols)        *)
(* Text is modelled character by character: a Python str is a sequence of  *)
(* one-character strings.  A character outside ASCII is written by name    *)
(* ("e_uml" is e-diaeresis, "ENDASH" the en dash).  Python's None and a    *)
(* failed re.search are the empty tuple <<>>, a present value v is <<v>>   *)
(* or the tuple of the match's groups.                                     *)
(***************************************************************************)
EXTENDS Integers, Sequences, FiniteSets, TLC

VARIABLES
    pages,        \* extractor input: the text lines pdfplumber extracted
    lines,        \* parse_pdf_schedule: lines (after pdf_to_lines)
    pc,           \* parse_pdf_schedule: "start", "loop", "raised", "returned"
    i,            \* parse_pdf_schedule: index of the line the loop is at (1-based)
    results,      \* parse_pdf_schedule: results
    current_loc,  \* parse_pdf_schedule: current_loc (<<>> is None)
    month,        \* parse_pdf_schedule: month (0 before detection)
    year,         \* parse_pdf_schedule: year
    df,           \* df_to_ics input: the canonical rows
    settings,     \* sidebar: tz_name, r_unit, r_value, force_local_times, no_reminder
    out,          \* one entry per df_to_ics call: what it returned or that it raised
    clock,        \* datetime.utcnow(), advancing with every call
    parsed_rows,  \* reconciler input: [cols, rows] as read by read_csv/read_excel
    hashseed,     \* the process's string hash seed (fixes set iteration order)
    g,            \* one entry per guess_columns call: [seed, map]
    norm          \* <<>> or <<rows>>: the normalised table built from parsed_rows

vars == <<pages, lines, pc, i, results, current_loc, month, year,
          df, settings, out, clock, parsed_rows, hashseed, g, norm>>

pdfVars == <<pages, lines, pc, i, results, current_loc, month, year>>
icsVars == <<df, settings, out, clock>>
colVars == <<parsed_rows, hashseed, g, norm>>

(***************************************************************************)
(* Bounds of the model.                                                    *)
(***************************************************************************)
MaxLines == 3
MaxRows == 2
MaxRuns == 2
MaxReminder == 1
MaxTableRows == 1

(***************************************************************************)
(* Characters and the str methods the program uses.                        *)
(***************************************************************************)
LowerCs == <<"a","b","c","d","e","f","g","h","i","j","k","l","m",
             "n","o","p","q","r","s","t","u","v","w","x","y","z","e_uml">>
UpperCs == <<"A","B","C","D","E","F","G","H","I","J","K","L","M",
             "N","O","P","Q","R","S","T","U","V","W","X","Y","Z","E_UML">>
DigitCs == <<"0","1","2","3","4","5","6","7","8","9">>

Range(f) == {f[k] : k \in DOMAIN f}
IndexOf(cs, c) == CHOOSE k \in DOMAIN cs : cs[k] = c
Min(S) == CHOOSE x \in S : \A y \in S : x <= y
Max(S) == CHOOSE x \in S : \A y \in S : x >= y

DigitSet == Range(DigitCs)
LowerSet == Range(LowerCs)
UpperSet == Range(UpperCs)
AsciiLetterSet == {LowerCs[k] : k \in 1..26} \cup {UpperCs[k] : k \in 1..26}
DigitValOf == [c \in DigitSet |-> IndexOf(DigitCs, c) - 1]
UpperOf == [c \in LowerSet |-> UpperCs[IndexOf(LowerCs, c)]]
LowerOf == [c \in UpperSet |-> LowerCs[IndexOf(UpperCs, c)]]

IsDigit(c) == c \in DigitSet
DigitVal(c) == DigitValOf[c]
IsSpace(c) == c \in {" ", "TAB"}
IsAsciiLetter(c) == c \in AsciiLetterSet
\* \w of the re module, for the ASCII text unidecode leaves
IsWord(c) == IsDigit(c) \/ IsAsciiLetter(c) \/ c = "_"

UpperChar(c) == IF c \in LowerSet THEN UpperOf[c] ELSE c
LowerChar(c) == IF c \in UpperSet THEN LowerOf[c] ELSE c
Upper(s) == [k \in 1..Len(s) |-> UpperChar(s[k])]
Lower(s) == [k \in 1..Len(s) |-> LowerChar(s[k])]

\* unidecode of one character: its ASCII transliteration
UnidecodeChar(c) ==
    CASE c = "e_uml" -> <<"e">>
      [] c = "E_UML" -> <<"E">>
      [] c = "ENDASH" -> <<"-">>
      [] OTHER -> <<c>>

RECURSIVE Flatten(_)
Flatten(ss) == IF ss = <<>> THEN <<>> ELSE Head(ss) \o Flatten(Tail(ss))

unidecode(s) == Flatten([k \in 1..Len(s) |-> UnidecodeChar(s[k])])

RECURSIVE lstrip(_)
lstrip(s) == IF s # <<>> /\ IsSpace(Head(s)) THEN lstrip(Tail(s)) ELSE s

RECURSIVE rstrip(_)
rstrip(s) ==
    IF s # <<>> /\ IsSpace(s[Len(s)]) THEN rstrip(SubSeq(s, 1, Len(s) - 1)) ELSE s

strip(s) == lstrip(rstrip(s))

\* sub in s
Contains(s, sub) ==
    \E p \in 1..(Len(s) - Len(sub) + 1) : SubSeq(s, p, p + Len(sub) - 1) = sub

\* s.split(sep) for a one-character separator
RECURSIVE split(_, _)
split(s, sep) ==
    LET P == {p \in 1..Len(s) : s[p] = sep}
    IN  IF P = {} THEN <<s>>
        ELSE <<SubSeq(s, 1, Min(P) - 1)>> \o split(SubSeq(s, Min(P) + 1, Len(s)), sep)

AllDigits(s) == s # <<>> /\ \A k \in 1..Len(s) : IsDigit(s[k])

RECURSIVE DigitsVal(_)
DigitsVal(s) ==
    IF s = <<>> THEN 0 ELSE 10 * DigitsVal(SubSeq(s, 1, Len(s) - 1)) + DigitVal(s[Len(s)])

\* int(s): <<>> when it raises ValueError, <<n>> otherwise
int(s) ==
    LET t == strip(s)
        signed == t # <<>> /\ t[1] \in {"+", "-"}
        body == IF signed THEN Tail(t) ELSE t
    IN  IF ~AllDigits(body) THEN <<>>
        ELSE IF signed /\ t[1] = "-" THEN <<0 - DigitsVal(body)>>
        ELSE <<DigitsVal(body)>>

RECURSIVE DecStr(_)
DecStr(n) == IF n < 10 THEN <<DigitCs[n + 1]>> ELSE DecStr(n \div 10) \o <<DigitCs[(n % 10) + 1]>>

RECURSIVE ZeroPad(_, _)
ZeroPad(s, w) == IF Len(s) >= w THEN s ELSE ZeroPad(<<"0">> \o s, w)

\* f"{n:02d}", f"{n:04d}" for n >= 0
Fmt(n, w) == ZeroPad(DecStr(n), w)

(***************************************************************************)
(* The calendar of datetime.                                               *)
(***************************************************************************)
is_leap(y) == y % 4 = 0 /\ (y % 100 # 0 \/ y % 400 = 0)
DAYS_IN_MONTH == <<31, 28, 31, 30, 31, 30, 31, 31, 30, 31, 30, 31>>
DAYS_BEFORE_MONTH == <<0, 31, 59, 90, 120, 151, 181, 212, 243, 273, 304, 334>>
days_in_month(y, m) == IF m = 2 /\ is_leap(y) THEN 29 ELSE DAYS_IN_MONTH[m]

\* datetime(y, m, d, hh, mm) does not raise ValueError
DatetimeOk(y, m, d, hh, mm) ==
    /\ y \in 1..9999
    /\ m \in 1..12
    /\ d >= 1 /\ d <= days_in_month(y, m)
    /\ hh \in 0..23
    /\ mm \in 0..59

\* date.isoformat()
isoformat(y, m, d) == Fmt(y, 4) \o <<"-">> \o Fmt(m, 2) \o <<"-">> \o Fmt(d, 2)

(***************************************************************************)
(* The regular expressions (re.search: the leftmost match, its groups).    *)
(***************************************************************************)
RECURSIVE SkipSpaces(_, _)
SkipSpaces(s, p) == IF p <= Len(s) /\ IsSpace(s[p]) THEN SkipSpaces(s, p + 1) ELSE p

\* \d{1,2}:\d{2} at p: the length matched, 0 for no match
TimeTokAt(s, p) ==
    IF /\ p + 4 <= Len(s)
       /\ IsDigit(s[p]) /\ IsDigit(s[p + 1]) /\ s[p + 2] = ":"
       /\ IsDigit(s[p + 3]) /\ IsDigit(s[p + 4])
    THEN 5
    ELSE IF /\ p + 3 <= Len(s)
            /\ IsDigit(s[p]) /\ s[p + 1] = ":"
            /\ IsDigit(s[p + 2]) /\ IsDigit(s[p + 3])
    THEN 4
    ELSE 0

TimeReAt(s, p) ==
    LET n1 == TimeTokAt(s, p)
        q == SkipSpaces(s, p + n1)
        r == SkipSpaces(s, q + 1)
        n2 == TimeTokAt(s, r)
    IN  IF n1 > 0 /\ q <= Len(s) /\ s[q] \in {"-", "ENDASH"} /\ n2 > 0
        THEN <<SubSeq(s, p, p + n1 - 1), SubSeq(s, r, r + n2 - 1)>>
        ELSE <<>>

\* TIME_RE.search(s): <<>> or <<group(1), group(2)>>
TIME_RE(s) ==
    LET P == {p \in 1..Len(s) : TimeReAt(s, p) # <<>>}
    IN  IF P = {} THEN <<>> ELSE TimeReAt(s, Min(P))

Weekdays == { <<"M","A">>, <<"D","I">>, <<"W","O">>, <<"D","O">>,
              <<"V","R">>, <<"Z","A">>, <<"Z","O">> }

\* \s*(MA|DI|WO|DO|VR|ZA|ZO)\b at p, ignoring case
WeekdayAt(s, p) ==
    LET q == SkipSpaces(s, p)
    IN  /\ q + 1 <= Len(s)
        /\ Upper(SubSeq(s, q, q + 1)) \in Weekdays
        /\ (q + 2 > Len(s) \/ ~IsWord(s[q + 2]))

\* (\d{1,2})\s*(MA|..)\b with the digits at d: <<group(2)>> or <<>>
DayDigitsAt(s, d) ==
    IF d + 1 <= Len(s) /\ IsDigit(s[d]) /\ IsDigit(s[d + 1]) /\ WeekdayAt(s, d + 2)
    THEN <<SubSeq(s, d, d + 1)>>
    ELSE IF d <= Len(s) /\ IsDigit(s[d]) /\ WeekdayAt(s, d + 1)
    THEN <<SubSeq(s, d, d)>>
    ELSE <<>>

\* a match starting at p: ^ (only at the start of the string) is tried before \s
DayReAt(s, p) ==
    IF p = 1 /\ DayDigitsAt(s, 1) # <<>> THEN DayDigitsAt(s, 1)
    ELSE IF p <= Len(s) /\ IsSpace(s[p]) THEN DayDigitsAt(s, p + 1)
    ELSE <<>>

\* DAY_RE.search(s): <<>> or <<group(2)>>
DAY_RE(s) ==
    LET P == {p \in 1..Len(s) : DayReAt(s, p) # <<>>}
    IN  IF P = {} THEN <<>> ELSE DayReAt(s, Min(P))

RECURSIVE LetterRun(_, _)
LetterRun(s, p) ==
    IF p <= Len(s) /\ IsAsciiLetter(s[p]) THEN LetterRun(s, p + 1) ELSE p

PeriodeWord == <<"P","E","R","I","O","D","E">>

PeriodeReAt(s, p) ==
    LET a == SkipSpaces(s, p + 7)
        b == SkipSpaces(s, a + 1)
        c == LetterRun(s, b)
        e == SkipSpaces(s, c)
    IN  IF /\ p + 6 <= Len(s)
           /\ Upper(SubSeq(s, p, p + 6)) = PeriodeWord
           /\ a <= Len(s) /\ s[a] = ":"
           /\ c > b
           /\ e > c
           /\ e + 3 <= Len(s)
           /\ AllDigits(SubSeq(s, e, e + 3))
        THEN <<SubSeq(s, b, c - 1), SubSeq(s, e, e + 3)>>
        ELSE <<>>

\* PERIODE_RE.search(s): <<>> or <<group(1), group(2)>>
PERIODE_RE(s) ==
    LET P == {p \in 1..Len(s) : PeriodeReAt(s, p) # <<>>}
    IN  IF P = {} THEN <<>> ELSE PeriodeReAt(s, Min(P))

\* ADDRESS_RE.search(s) is not None
ADDRESS_RE(s) ==
    \E p \in 1..(Len(s) - 3) :
        /\ AllDigits(SubSeq(s, p, p + 3))
        /\ (p = 1 \/ ~IsWord(s[p - 1]))
        /\ (p + 4 > Len(s) \/ ~IsWord(s[p + 4]))

(***************************************************************************)
(* Helpers of the extractor.                                               *)
(***************************************************************************)
MonthNames == <<
    <<"J","A","N","U","A","R","I">>, <<"F","E","B","R","U","A","R","I">>,
    <<"M","A","A","R","T">>, <<"A","P","R","I","L">>, <<"M","E","I">>,
    <<"J","U","N","I">>, <<"J","U","L","I">>, <<"A","U","G","U","S","T","U","S">>,
    <<"S","E","P","T","E","M","B","E","R">>, <<"O","K","T","O","B","E","R">>,
    <<"N","O","V","E","M","B","E","R">>, <<"D","E","C","E","M","B","E","R">> >>

\* MONTHS_NL.get(name): <<>> or <<month>>
MONTHS_NL(name) ==
    IF name \in Range(MonthNames) THEN <<IndexOf(MonthNames, name)>> ELSE <<>>

\* what one line contributes to detect_month_year: <<>> or <<month, year>>
HeaderOf(line) ==
    LET m == PERIODE_RE(unidecode(Upper(line)))
    IN  IF m = <<>> THEN <<>>
        ELSE IF MONTHS_NL(m[1]) = <<>> THEN <<>>
        ELSE <<MONTHS_NL(m[1])[1], DigitsVal(m[2])>>

\* detect_month_year with the last header line winning instead of the first
detect_month_year_last(ls) ==
    LET H == {k \in 1..Len(ls) : HeaderOf(ls[k]) # <<>>}
    IN  IF H = {} THEN <<>> ELSE HeaderOf(ls[Max(H)])

\* detect_month_year over the lines of the text: <<>> is (None, None)
detect_month_year(ls) ==
    LET H == {k \in 1..Len(ls) : HeaderOf(ls[k]) # <<>>}
    IN  IF H = {} THEN <<>> ELSE HeaderOf(ls[Min(H)])

pdf_to_lines(pgs) == [k \in 1..Len(pgs) |-> rstrip(pgs[k])]

normalize_time(t) ==
    LET hm == split(strip(t), ":")
    IN  Fmt(int(hm[1])[1], 2) \o <<":">> \o Fmt(int(hm[2])[1], 2)

Nachtdienst == <<"N","a","c","h","t","d","i","e","n","s","t">>
Dagdienst == <<"D","a","g","d","i","e","n","s","t">>
Werkdienst == <<"W","e","r","k","d","i","e","n","s","t">>

classify_shift(start_hhmm) ==
    LET h == int(split(start_hhmm, ":")[1])[1]
    IN  IF h >= 18 \/ h < 6 THEN Nachtdienst ELSE Dagdienst

(***************************************************************************)
(* parse_pdf_schedule, one loop iteration per step.  The assignment        *)
(* current_loc = u.strip() (line 73) is the body of the if of line 71, as  *)
(* the comment between them says; as indented in the file the module does  *)
(* not compile.                                                            *)
(***************************************************************************)
OFF == <<"O","F","F">>

\* current_loc keeping the first address seen instead of the most recent
NextLoc_sticky(u, loc) == IF ADDRESS_RE(u) /\ loc = <<>> THEN <<strip(u)>> ELSE loc

\* lines 71-73: current_loc after the line u
NextLoc(u, loc) == IF ADDRESS_RE(u) THEN <<strip(u)>> ELSE loc

\* line 76
IsShiftLine(u) == DAY_RE(u) # <<>> /\ TIME_RE(u) # <<>>

\* the day-off test without .upper()
IsDayOff_cased(u) == Contains(u, OFF)

\* line 77
IsDayOff(u) == Contains(Upper(u), OFF)

\* lines 79-92 for a shift line u that is no day off: the records appended
ShiftRecords(u, loc, mo, yr) ==
    LET day == int(DAY_RE(u)[1])[1]
        start_h == normalize_time(TIME_RE(u)[1])
        end_h == normalize_time(TIME_RE(u)[2])
        hh == int(SubSeq(start_h, 1, 2))
        mm == int(SubSeq(start_h, 4, Len(start_h)))
    IN  IF ~DatetimeOk(yr, mo, day, hh[1], mm[1]) THEN <<>>
        ELSE << [date |-> isoformat(yr, mo, day),
                 start |-> start_h,
                 end |-> end_h,
                 title |-> classify_shift(start_h),
                 location |-> IF loc = <<>> THEN <<>> ELSE loc[1],
                 notes |-> <<>>] >>

\* lines 76-92: the records one line appends, given current_loc after lines 71-73
LineRecords(u, loc, mo, yr) ==
    IF ~IsShiftLine(u) THEN <<>>
    ELSE IF IsDayOff(u) THEN <<>>
    ELSE ShiftRecords(u, loc, mo, yr)

\* lines 61-67
ParseStart ==
    /\ pc = "start"
    /\ lines' = pdf_to_lines(pages)
    /\ LET my == detect_month_year(pdf_to_lines(pages))
       IN  IF my = <<>> \/ my[1] = 0 \/ my[2] = 0
           THEN /\ pc' = "raised"
                /\ UNCHANGED <<month, year>>
           ELSE /\ pc' = "loop"
                /\ month' = my[1]
                /\ year' = my[2]
    /\ i' = 1
    /\ results' = <<>>
    /\ current_loc' = <<>>
    /\ UNCHANGED <<pages>>
    /\ UNCHANGED <<icsVars, colVars>>

\* lines 68-92, one iteration
ScanLine ==
    /\ pc = "loop"
    /\ i <= Len(lines)
    /\ LET u == unidecode(lines[i])
           loc == NextLoc(u, current_loc)
       IN  /\ current_loc' = loc
           /\ results' = results \o LineRecords(u, loc, month, year)
    /\ i' = i + 1
    /\ UNCHANGED <<pages, lines, pc, month, year>>
    /\ UNCHANGED <<icsVars, colVars>>

\* line 93
Return ==
    /\ pc = "loop"
    /\ i > Len(lines)
    /\ pc' = "returned"
    /\ UNCHANGED <<pages, lines, i, results, current_loc, month, year>>
    /\ UNCHANGED <<icsVars, colVars>>

(***************************************************************************)
(* The documents the extractor is run on: up to MaxLines lines, each one   *)
(* of PageLines.                                                           *)
(***************************************************************************)
PageLines == {
    \* "Periode : Maart 2024"
    <<"P","e","r","i","o","d","e"," ",":"," ","M","a","a","r","t"," ","2","0","2","4">>,
    \* "PERIODE: februari 2023"
    <<"P","E","R","I","O","D","E",":"," ","f","e","b","r","u","a","r","i"," ","2","0","2","3">>,
    \* "Periode : Foo 2024"
    <<"P","e","r","i","o","d","e"," ",":"," ","F","o","o"," ","2","0","2","4">>,
    \* "Periode : Mei 0000"
    <<"P","e","r","i","o","d","e"," ",":"," ","M","e","i"," ","0","0","0","0">>,
    \* " 9000 Gent " with e-diaeresis
    <<" ","9","0","0","0"," ","G","e_uml","n","t"," ">>,
    \* "5 MA 8:00-16:00"
    <<"5"," ","M","A"," ","8",":","0","0","-","1","6",":","0","0">>,
    \* "29 do 22:00 - 06:00" with an en dash
    <<"2","9"," ","d","o"," ","2","2",":","0","0"," ","ENDASH"," ","0","6",":","0","0">>,
    \* "31 ZO 07:30-29:99"
    <<"3","1"," ","Z","O"," ","0","7",":","3","0","-","2","9",":","9","9">>,
    \* "7 wo Off 9:00-17:00 2000 Mol"
    <<"7"," ","w","o"," ","O","f","f"," ","9",":","0","0","-","1","7",":","0","0"," ","2","0","0","0"," ","M","o","l">>,
    \* "12 VR 25:00-07:00"
    <<"1","2"," ","V","R"," ","2","5",":","0","0","-","0","7",":","0","0">>
}

Docs == UNION {[1..n -> PageLines] : n \in 0..MaxLines}

IcsIdle ==
    /\ df = <<>>
    /\ settings = <<>>
    /\ out = <<>>
    /\ clock = 0

ColsIdle ==
    /\ parsed_rows = <<>>
    /\ hashseed = 0
    /\ g = <<>>
    /\ norm = <<>>

PdfIdle ==
    /\ pages = <<>>
    /\ lines = <<>>
    /\ pc = "idle"
    /\ i = 0
    /\ results = <<>>
    /\ current_loc = <<>>
    /\ month = 0
    /\ year = 0

InitPdf ==
    /\ pages \in Docs
    /\ lines = <<>>
    /\ pc = "start"
    /\ i = 0
    /\ results = <<>>
    /\ current_loc = <<>>
    /\ month = 0
    /\ year = 0
    /\ IcsIdle
    /\ ColsIdle

NextPdf == ParseStart \/ ScanLine \/ Return

SpecPdf == InitPdf /\ [][NextPdf]_vars

(***************************************************************************)
(* Properties of the extractor (SpecPdf).                                  *)
(***************************************************************************)
SortedSeq(S) ==
    [n \in 1..Cardinality(S) |-> CHOOSE x \in S : Cardinality({y \in S : y < x}) = n - 1]

Scanned == IF pc \in {"loop", "returned"} THEN 1..(i - 1) ELSE {}

\* the line holds a header match whose month name is in the table
HasHeader(line) == HeaderOf(line) # <<>>
HeaderLines == {k \in 1..Len(lines) : HasHeader(lines[k])}

\* the line matches the day and the time-range pattern and its date and
\* start time are valid in the detected month and year
IsDatedShift(k) ==
    LET u == unidecode(lines[k])
    IN  IsShiftLine(u) /\ ShiftRecords(u, <<>>, month, year) # <<>>

\* the line holds the letters o, f, f in a row, in any case
HasOff(k) ==
    \E p \in 1..(Len(lines[k]) - 2) : Upper(SubSeq(lines[k], p, p + 2)) = OFF

\* the lines scanned so far that emit a record, in document order
Emitting == SortedSeq({k \in Scanned : IsDatedShift(k) /\ ~HasOff(k)})

IsHHMM(t) ==
    /\ Len(t) = 5
    /\ IsDigit(t[1]) /\ IsDigit(t[2]) /\ t[3] = ":" /\ IsDigit(t[4]) /\ IsDigit(t[5])
    /\ DigitsVal(SubSeq(t, 1, 2)) \in 0..23
    /\ DigitsVal(SubSeq(t, 4, 5)) \in 0..59

IsIsoDate(d) ==
    /\ Len(d) = 10
    /\ AllDigits(SubSeq(d, 1, 4)) /\ d[5] = "-"
    /\ AllDigits(SubSeq(d, 6, 7)) /\ d[8] = "-"
    /\ AllDigits(SubSeq(d, 9, 10))
    /\ DatetimeOk(DigitsVal(SubSeq(d, 1, 4)), DigitsVal(SubSeq(d, 6, 7)),
                  DigitsVal(SubSeq(d, 9, 10)), 0, 0)

\* C3 (as claimed): every record the extractor emits has a valid calendar
\* date and a start and an end of the form HH:MM with HH in 00..23 and MM in
\* 00..59.
C3_RecordsValid ==
    \A n \in 1..Len(results) :
        /\ IsIsoDate(results[n].date)
        /\ IsHHMM(results[n].start)
        /\ IsHHMM(results[n].end)

C5_DayOffExcluded ==
    pc \in {"loop", "returned"} =>
        /\ Len(results) = Len(Emitting)
        /\ \A n \in 1..Len(results) :
              LET u == unidecode(lines[Emitting[n]])
              IN  /\ results[n].date = isoformat(year, month, DigitsVal(DAY_RE(u)[1]))
                  /\ results[n].start = normalize_time(TIME_RE(u)[1])

\* an OFF line that matches the day and time patterns, followed by a line that emitted
C5_Witness ==
    /\ pc = "returned"
    /\ \E k \in Scanned :
          /\ HasOff(k)
          /\ IsDatedShift(k)
          /\ \E n \in 1..Len(Emitting) : Emitting[n] > k

\* the location the claim gives the record of line k
ExpectedLoc(k) ==
    LET A == {j \in 1..k : ADDRESS_RE(unidecode(lines[j]))}
    IN  IF A = {} THEN <<>> ELSE strip(unidecode(lines[Max(A)]))

NaN == <<"NaN">>

\* str(x) of a cell
str(x) == IF x = NaN THEN <<"n","a","n">> ELSE x

\* x or default, for a cell: NaN is truthy, the empty str is not
OrDefault(x, default) == IF x = <<>> THEN default ELSE x

\* pd.to_datetime(s, errors="coerce") for the dates of the model, which are
\* ISO dates or no dates at all: <<>> is NaT, else <<year, month, day>>
to_datetime(s) ==
    IF /\ Len(s) = 10
       /\ AllDigits(SubSeq(s, 1, 4)) /\ s[5] = "-"
       /\ AllDigits(SubSeq(s, 6, 7)) /\ s[8] = "-"
       /\ AllDigits(SubSeq(s, 9, 10))
       /\ DatetimeOk(DigitsVal(SubSeq(s, 1, 4)), DigitsVal(SubSeq(s, 6, 7)),
                     DigitsVal(SubSeq(s, 9, 10)), 0, 0)
    THEN <<DigitsVal(SubSeq(s, 1, 4)), DigitsVal(SubSeq(s, 6, 7)), DigitsVal(SubSeq(s, 9, 10))>>
    ELSE <<>>

\* h, m = map(int, str(x).split(":")): <<>> when it raises ValueError
ParseHM(x) ==
    LET parts == split(str(x), ":")
    IN  IF Len(parts) # 2 THEN <<>>
        ELSE IF int(parts[1]) = <<>> \/ int(parts[2]) = <<>> THEN <<>>
        ELSE <<int(parts[1])[1], int(parts[2])[1]>>

\* date.toordinal()
days_before_year(y) == (y - 1) * 365 + (y - 1) \div 4 - (y - 1) \div 100 + (y - 1) \div 400
days_before_month(y, m) == DAYS_BEFORE_MONTH[m] + (IF m > 2 /\ is_leap(y) THEN 1 ELSE 0)
ymd2ord(y, m, d) == days_before_year(y) + days_before_month(y, m) + d

\* date.fromordinal(n)
ord2ymd(n) ==
    LET n0 == n - 1
        n400 == n0 \div 146097
        r400 == n0 % 146097
        n100 == r400 \div 36524
        r100 == r400 % 36524
        n4 == r100 \div 1461
        r4 == r100 % 1461
        n1 == r4 \div 365
        r1 == r4 % 365
        y == n400 * 400 + 1 + n100 * 100 + n4 * 4 + n1
        leapyear == n1 = 3 /\ (n4 # 24 \/ n100 = 3)
        m0 == (r1 + 50) \div 32
        p0 == DAYS_BEFORE_MONTH[m0] + (IF m0 > 2 /\ leapyear THEN 1 ELSE 0)
        m == IF p0 > r1 THEN m0 - 1 ELSE m0
        preceding == IF p0 > r1
                     THEN p0 - (DAYS_IN_MONTH[m] + (IF m = 2 /\ leapyear THEN 1 ELSE 0))
                     ELSE p0
    IN  IF n1 = 4 \/ n100 = 4 THEN <<y - 1, 12, 31>>
        ELSE <<y, m, r1 - preceding + 1>>

\* a datetime: the date, the time of day and the tzinfo (<<>> is naive)
Datetime(ymd, hh, mm, tzinfo) ==
    [y |-> ymd[1], m |-> ymd[2], d |-> ymd[3], hh |-> hh, mm |-> mm, tz |-> tzinfo]

\* a <= b for two datetimes that are both naive or share their tzinfo: the
\* wall-clock fields are compared
DtLe(a, b) ==
    LET oa == ymd2ord(a.y, a.m, a.d)
        ob == ymd2ord(b.y, b.m, b.d)
    IN  \/ oa < ob
        \/ oa = ob /\ a.hh < b.hh
        \/ oa = ob /\ a.hh = b.hh /\ a.mm <= b.mm

DtLt(a, b) == DtLe(a, b) /\ ~DtLe(b, a)

\* dt + timedelta(days=1)
PlusOneDay(dt) ==
    LET ymd == ord2ymd(ymd2ord(dt.y, dt.m, dt.d) + 1)
    IN  [dt EXCEPT !.y = ymd[1], !.m = ymd[2], !.d = ymd[3]]

\* the midnight test with < instead of <=
Rollover_lt(start_dt, end_dt) == IF DtLt(end_dt, start_dt) THEN PlusOneDay(end_dt) ELSE end_dt

\* lines 138 and 142: if end_dt <= start_dt: end_dt += timedelta(days=1)
Rollover(start_dt, end_dt) == IF DtLe(end_dt, start_dt) THEN PlusOneDay(end_dt) ELSE end_dt

\* lines 136-138: <<>> when datetime() raises, else <<start_dt, end_dt>>
FloatingTimes(ymd, sh, sm, eh, em) ==
    IF ~DatetimeOk(ymd[1], ymd[2], ymd[3], sh, sm) THEN <<>>
    ELSE IF ~DatetimeOk(ymd[1], ymd[2], ymd[3], eh, em) THEN <<>>
    ELSE <<Datetime(ymd, sh, sm, <<>>),
           Rollover(Datetime(ymd, sh, sm, <<>>), Datetime(ymd, eh, em, <<>>))>>

\* lines 140-142: <<>> when datetime() or replace() raises
ZonedTimes(ymd, sh, sm, eh, em, tzinfo) ==
    IF ~DatetimeOk(ymd[1], ymd[2], ymd[3], sh, sm) THEN <<>>
    ELSE IF ~(eh \in 0..23 /\ em \in 0..59) THEN <<>>
    ELSE <<Datetime(ymd, sh, sm, tzinfo),
           Rollover(Datetime(ymd, sh, sm, tzinfo), Datetime(ymd, eh, em, tzinfo))>>

\* hashlib.sha1(raw).hexdigest(), taken to be free of collisions
sha1_hexdigest(raw) == <<"sha1(">> \o raw \o <<")">>

Dash == <<"-">>

build_uid(day, start, end, title, loc) ==
    sha1_hexdigest(DecStr(day) \o Dash \o str(start) \o Dash \o str(end) \o Dash
                   \o title \o Dash \o loc)
    \o <<"@","p","l","a","n","n","e","r","2","i","c","s">>

\* the uid built from the whole date instead of the day of the month
EventUid_dated(ymd, row, title, location) ==
    build_uid(ymd[1] * 10000 + ymd[2] * 100 + ymd[3], row.start, row.end, title, location)

\* line 154
EventUid(ymd, row, title, location) ==
    build_uid(ymd[3], row.start, row.end, title, location)

\* the trigger without the minus sign
AlarmTrigger_positive(reminder_value, reminder_unit) ==
    IF reminder_unit = "dagen" THEN reminder_value * 24 * 60
    ELSE IF reminder_unit = "uren" THEN reminder_value * 60
    ELSE reminder_value

\* lines 161-167: -delta, in minutes
AlarmTrigger(reminder_value, reminder_unit) ==
    IF reminder_unit = "dagen" THEN 0 - reminder_value * 24 * 60
    ELSE IF reminder_unit = "uren" THEN 0 - reminder_value * 60
    ELSE 0 - reminder_value

Herinnering == <<"H","e","r","i","n","n","e","r","i","n","g",":"," ">>

\* lines 157-168: the alarms of one event
Alarms(title, location, cfg) ==
    IF cfg.no_reminder THEN <<>>
    ELSE << [action |-> "DISPLAY",
             description |-> IF location # <<>>
                             THEN Herinnering \o title \o <<" ","EMDASH"," ">> \o location
                             ELSE Herinnering \o title,
             trigger |-> AlarmTrigger(cfg.r_value, cfg.r_unit)] >>

\* lines 144-170 for a row whose date and times were read
Event(row, ymd, times, cfg, now) ==
    LET title == str(OrDefault(row.title, Werkdienst))
        location == str(OrDefault(row.location, <<>>))
        desc == str(OrDefault(row.notes, <<>>))
    IN  [summary |-> title,
         location |-> location,
         description |-> desc,
         dtstart |-> times[1],
         dtend |-> times[2],
         uid |-> EventUid(ymd, row, title, location),
         dtstamp |-> now,
         alarms |-> Alarms(title, location, cfg)]

\* lines 129-170, one iteration: [raised, events]
RowEvents(row, cfg, now) ==
    LET date == to_datetime(str(row.date))
        s == ParseHM(row.start)
        e == ParseHM(row.end)
        times == IF cfg.force_local_times
                 THEN FloatingTimes(date, s[1], s[2], e[1], e[2])
                 ELSE ZonedTimes(date, s[1], s[2], e[1], e[2], <<cfg.tz_name>>)
    IN  IF date = <<>> THEN [raised |-> FALSE, events |-> <<>>]
        ELSE IF s = <<>> \/ e = <<>> THEN [raised |-> TRUE, events |-> <<>>]
        ELSE IF times = <<>> THEN [raised |-> TRUE, events |-> <<>>]
        ELSE [raised |-> FALSE, events |-> <<Event(row, date, times, cfg, now)>>]

\* lines 121-172: an exception in any row ends the call
RECURSIVE df_to_ics(_, _, _)
df_to_ics(rows, cfg, now) ==
    IF rows = <<>> THEN [raised |-> FALSE, events |-> <<>>]
    ELSE LET r == RowEvents(Head(rows), cfg, now)
             rest == df_to_ics(Tail(rows), cfg, now)
         IN  IF r.raised \/ rest.raised THEN [raised |-> TRUE, events |-> <<>>]
             ELSE [raised |-> FALSE, events |-> r.events \o rest.events]

\* lines 277-278: the button "Maak .ics"
MakeIcs ==
    /\ settings # <<>>
    /\ Len(out) < MaxRuns
    /\ out' = Append(out, df_to_ics(df, settings[1], clock))
    /\ clock' = clock + 1
    /\ UNCHANGED <<df, settings>>
    /\ UNCHANGED <<pdfVars, colVars>>

ShiftRow(d, s, e, t, l, n) ==
    [date |-> d, start |-> s, end |-> e, title |-> t, location |-> l, notes |-> n]

Gent == <<"G","e","n","t">>
T2200 == <<"2","2",":","0","0">>
T0600 == <<"0","6",":","0","0">>
T0800 == <<"0","8",":","0","0">>
T1600 == <<"1","6",":","0","0">>

\* the rows the builder is run on
TableRows == {
    \* 2024-03-05 22:00-06:00 Nachtdienst, Gent
    ShiftRow(<<"2","0","2","4","-","0","3","-","0","5">>, T2200, T0600, Nachtdienst, Gent, <<>>),
    \* the same on 2024-04-05
    ShiftRow(<<"2","0","2","4","-","0","4","-","0","5">>, T2200, T0600, Nachtdienst, Gent, <<>>),
    \* 2023-12-31 23:59-00:00, no title
    ShiftRow(<<"2","0","2","3","-","1","2","-","3","1">>, <<"2","3",":","5","9">>,
             <<"0","0",":","0","0">>, <<>>, <<>>, <<>>),
    \* 2024-02-29 06:00-06:00 Dagdienst, with a note
    ShiftRow(<<"2","0","2","4","-","0","2","-","2","9">>, T0600, T0600, Dagdienst, <<>>, <<"x">>),
    \* 2024-03-05 08:00-16:00 Dagdienst, Gent
    ShiftRow(<<"2","0","2","4","-","0","3","-","0","5">>, T0800, T1600, Dagdienst, Gent, <<>>),
    \* no date
    ShiftRow(<<"n","/","a">>, T0800, T1600, Dagdienst, <<>>, <<>>),
    \* start "abc"
    ShiftRow(<<"2","0","2","4","-","0","3","-","0","5">>, <<"a","b","c">>, T1600, Dagdienst, <<>>, <<>>),
    \* end "29:99", as the extractor emits it
    ShiftRow(<<"2","0","2","4","-","0","3","-","3","1">>, <<"0","7",":","3","0">>,
             <<"2","9",":","9","9">>, Dagdienst, Gent, <<>>)
}

Tables == UNION {[1..n -> TableRows] : n \in 0..MaxRows}

\* the sidebar, lines 175-185
Settings ==
    [tz_name : {"Europe/Brussels", "UTC"},
     r_unit : {"dagen", "uren", "minuten"},
     r_value : 0..MaxReminder,
     force_local_times : BOOLEAN,
     no_reminder : BOOLEAN]

InitIcs ==
    /\ df \in Tables
    /\ settings \in {<<c>> : c \in Settings}
    /\ out = <<>>
    /\ clock = 1
    /\ PdfIdle
    /\ ColsIdle

NextIcs == MakeIcs

SpecIcs == InitIcs /\ [][NextIcs]_vars

(***************************************************************************)
(* Properties of the event builder (SpecIcs).                              *)
(***************************************************************************)
\* the rows with a date that can be read, in table order
Dated == SortedSeq({k \in 1..Len(df) : IsIsoDate(df[k].date)})

\* minutes since midnight of a cell of the form HH:MM
TimeOfDay(t) == DigitsVal(SubSeq(t, 1, 2)) * 60 + DigitsVal(SubSeq(t, 4, 5))

DateOfCell(d) ==
    <<DigitsVal(SubSeq(d, 1, 4)), DigitsVal(SubSeq(d, 6, 7)), DigitsVal(SubSeq(d, 9, 10))>>

\* the calendar day after a date
NextDay(ymd) ==
    IF ymd[3] < days_in_month(ymd[1], ymd[2]) THEN <<ymd[1], ymd[2], ymd[3] + 1>>
    ELSE IF ymd[2] < 12 THEN <<ymd[1], ymd[2] + 1, 1>>
    ELSE <<ymd[1] + 1, 1, 1>>

DateOf(dt) == <<dt.y, dt.m, dt.d>>

Returned == {r \in 1..Len(out) : ~out[r].raised}

\* C1: for every row with a readable date and valid times, in floating and
\* in zoned mode, dtstart is the row's date and start; dtend has the row's
\* end time and falls on the next calendar day when end <= start and on the
\* same day otherwise; so dtend is strictly later than dtstart.
C1_MidnightCrossing ==
    \A r \in Returned :
        /\ Len(out[r].events) = Len(Dated)
        /\ \A n \in 1..Len(out[r].events) :
              LET row == df[Dated[n]]
                  ev == out[r].events[n]
                  S == TimeOfDay(row.start)
                  E == TimeOfDay(row.end)
              IN  IsHHMM(row.start) /\ IsHHMM(row.end) =>
                    /\ DateOf(ev.dtstart) = DateOfCell(row.date)
                    /\ ev.dtstart.hh * 60 + ev.dtstart.mm = S
                    /\ ev.dtend.hh * 60 + ev.dtend.mm = E
                    /\ DateOf(ev.dtend) =
                          IF E <= S THEN NextDay(DateOf(ev.dtstart)) ELSE DateOf(ev.dtstart)
                    /\ \/ DateOf(ev.dtend) = DateOf(ev.dtstart) /\ E > S
                       \/ ymd2ord(ev.dtend.y, ev.dtend.m, ev.dtend.d) >
                              ymd2ord(ev.dtstart.y, ev.dtstart.m, ev.dtstart.d)
                    /\ ev.dtstart.tz = ev.dtend.tz
                    /\ ev.dtstart.tz =
                          IF settings[1].force_local_times THEN <<>> ELSE <<settings[1].tz_name>>

\* a zoned event that ends in the month after the one it starts in, and an
\* event of the same call that ends the day it starts
C1_Witness ==
    \E r \in Returned :
        /\ ~settings[1].force_local_times
        /\ \E n \in 1..Len(out[r].events) :
              out[r].events[n].dtend.m # out[r].events[n].dtstart.m
        /\ \E n \in 1..Len(out[r].events) :
              DateOf(out[r].events[n].dtend) = DateOf(out[r].events[n].dtstart)

Readable(row) == IsIsoDate(row.date) /\ IsHHMM(row.start) /\ IsHHMM(row.end)

\* C2 (as claimed): a row whose date, start or end cannot be read is left
\* out and never aborts the call: df_to_ics returns, with one event for every
\* other row.
C2_RowSkipNeverAborts ==
    \A r \in 1..Len(out) :
        /\ ~out[r].raised
        /\ Len(out[r].events) = Cardinality({k \in 1..Len(df) : Readable(df[k])})

\* the five fields the uid is made of
UidFields(row) ==
    <<DateOfCell(row.date)[3], row.start, row.end,
      IF row.title = <<>> THEN Werkdienst ELSE row.title, row.location>>

HasSuffix(s, suf) ==
    Len(s) >= Len(suf) /\ SubSeq(s, Len(s) - Len(suf) + 1, Len(s)) = suf

\* C6: two calls on the same rows and settings give the same uids, event by
\* event; two rows that agree on day of month, start, end, title and location
\* get the same uid, whatever their month and year; every uid ends with
\* @planner2ics.
C6_UidContentAddressed ==
    /\ \A r1 \in Returned, r2 \in Returned :
          /\ Len(out[r1].events) = Len(out[r2].events)
          /\ \A n \in 1..Len(out[r1].events) :
                out[r1].events[n].uid = out[r2].events[n].uid
    /\ \A r \in Returned :
          /\ Len(out[r].events) = Len(Dated)
          /\ \A n1 \in 1..Len(out[r].events), n2 \in 1..Len(out[r].events) :
                UidFields(df[Dated[n1]]) = UidFields(df[Dated[n2]]) =>
                    out[r].events[n1].uid = out[r].events[n2].uid
          /\ \A n \in 1..Len(out[r].events) :
                HasSuffix(out[r].events[n].uid,
                          <<"@","p","l","a","n","n","e","r","2","i","c","s">>)

\* two calls made at different times, on a table with two rows of different
\* months that share the five fields, and one row that does not
C6_Witness ==
    /\ Cardinality(Returned) >= 2
    /\ \E r1 \in Returned, r2 \in Returned :
          /\ out[r1].events # <<>>
          /\ out[r1].events[1].dtstamp # out[r2].events[1].dtstamp
    /\ \E r \in Returned :
          \E n1 \in 1..Len(out[r].events), n2 \in 1..Len(out[r].events) :
              /\ out[r].events[n1].dtstart.m # out[r].events[n2].dtstart.m
              /\ out[r].events[n1].uid = out[r].events[n2].uid

UnitMinutes(unit) ==
    CASE unit = "dagen" -> 1440
      [] unit = "uren" -> 60
      [] unit = "minuten" -> 1

\* C8: with no_reminder no event carries an alarm; without it every event
\* carries exactly one DISPLAY alarm whose trigger is minus reminder_value in
\* the configured unit: never positive, and zero for a reminder_value of 0.
C8_AlarmEmission ==
    \A r \in Returned :
        \A n \in 1..Len(out[r].events) :
            LET al == out[r].events[n].alarms
                cfg == settings[1]
            IN  IF cfg.no_reminder THEN al = <<>>
                ELSE /\ Len(al) = 1
                     /\ al[1].action = "DISPLAY"
                     /\ al[1].trigger = 0 - cfg.r_value * UnitMinutes(cfg.r_unit)
                     /\ al[1].trigger <= 0
                     /\ (cfg.r_value = 0 => al[1].trigger = 0)

\* an event with an alarm some hours before the start
C8_Witness ==
    \E r \in Returned :
        /\ out[r].events # <<>>
        /\ ~settings[1].no_reminder
        /\ settings[1].r_unit = "uren"
        /\ settings[1].r_value > 0
        /\ out[r].events[1].alarms # <<>>
        /\ out[r].events[1].alarms[1].trigger < 0

(***************************************************************************)
(* The column reconciler: guess_columns and the normalisation of the       *)
(* upload block (lines 206-238).  COLUMN_ALIASES holds Python sets of str: *)
(* the order a set is iterated in is fixed by the process's hash seed and  *)
(* differs between processes.  The model takes two iteration orders: the   *)
(* written order (hashseed 0) and its reverse (hashseed 1).                *)
(***************************************************************************)
Fields == <<"date", "start", "end", "title", "location", "notes">>

COLUMN_ALIASES ==
    [date |-> <<
        <<"d","a","t","e">>,
        <<"d","a","t","u","m">>,
        <<"d","a","g">>,
        <<"d","a","y">> >>,
     start |-> <<
        <<"s","t","a","r","t">>,
        <<"f","r","o","m">>,
        <<"v","a","n">>,
        <<"b","e","g","i","n">>,
        <<"s","t","a","r","t","t","i","j","d">>,
        <<"s","t","a","r","t","t","i","m","e">> >>,
     end |-> <<
        <<"e","n","d">>,
        <<"t","o","t">>,
        <<"e","i","n","d","e">>,
        <<"t","o">>,
        <<"e","i","n","d","t","i","j","d">>,
        <<"e","n","d","t","i","m","e">>,
        <<"s","t","o","p">> >>,
     title |-> <<
        <<"t","i","t","l","e">>,
        <<"t","i","t","e","l">>,
        <<"d","i","e","n","s","t">>,
        <<"s","h","i","f","t">>,
        <<"t","y","p","e">> >>,
     location |-> <<
        <<"l","o","c","a","t","i","o","n">>,
        <<"l","o","c","a","t","i","e">>,
        <<"a","d","r","e","s">>,
        <<"a","d","d","r","e","s","s">>,
        <<"p","l","a","c","e">> >>,
     notes |-> <<
        <<"n","o","t","e","s">>,
        <<"o","p","m","e","r","k","i","n","g">>,
        <<"o","p","m","e","r","k","i","n","g","e","n">>,
        <<"n","o","t","i","t","i","e","s">>,
        <<"d","e","s","c","r","i","p","t","i","o","n">>,
        <<"b","e","s","c","h","r","i","j","v","i","n","g">> >> ]

\* the keys of COLUMN_ALIASES as str
FieldName ==
    [date |-> <<"d","a","t","e">>,
     start |-> <<"s","t","a","r","t">>,
     end |-> <<"e","n","d">>,
     title |-> <<"t","i","t","l","e">>,
     location |-> <<"l","o","c","a","t","i","o","n">>,
     notes |-> <<"n","o","t","e","s">>]

RECURSIVE KeepLowerAZ(_)
KeepLowerAZ(s) ==
    IF s = <<>> THEN <<>>
    ELSE IF \E k \in 1..26 : LowerCs[k] = Head(s) THEN <<Head(s)>> \o KeepLowerAZ(Tail(s))
    ELSE KeepLowerAZ(Tail(s))

\* _norm: re.sub(r"[^a-z]", "", str(s).lower())
_norm(s) == KeepLowerAZ(Lower(str(s)))

\* norm_map = {_norm(c): c for c in cols}: the last column of a name wins
norm_map(cols) ==
    [n \in {_norm(cols[k]) : k \in 1..Len(cols)} |->
        cols[Max({k \in 1..Len(cols) : _norm(cols[k]) = n})]]

\* for a in aliases: the order the set is iterated in under the seed
AliasOrder(want, seed) ==
    LET a == COLUMN_ALIASES[want]
    IN  IF seed = 0 THEN a ELSE [k \in 1..Len(a) |-> a[Len(a) + 1 - k]]

\* lines 112-118: <<>> is None, else <<column>>
Chosen(want, cols, seed) ==
    LET nm == norm_map(cols)
        order == AliasOrder(want, seed)
        hits == {k \in 1..Len(order) : order[k] \in DOMAIN nm}
        chosen == IF hits = {} THEN <<>> ELSE <<nm[order[Min(hits)]]>>
    IN  IF (chosen = <<>> \/ chosen[1] = <<>>) /\ FieldName[want] \in DOMAIN nm
        THEN <<nm[FieldName[want]]>>
        ELSE chosen

guess_columns(cols, seed) == [want \in Range(Fields) |-> Chosen(want, cols, seed)]

\* lines 211-221: the cell of field Fields[f] in row r of norm.  A field
\* without a column gets the default "", broadcast over the rows norm has by
\* then; assigned before norm has any row, it is filled with NaN when the
\* first column arrives.
Pick(table, gm, f, r) ==
    IF gm[Fields[f]] # <<>>
    THEN table.rows[r][IndexOf(table.cols, gm[Fields[f]][1])]
    ELSE IF \E e \in 1..(f - 1) : gm[Fields[e]] # <<>> THEN <<>>
    ELSE NaN

\* lines 224-231
_auto_title(title, start) ==
    LET t == strip(str(title))
        h == int(split(str(start), ":")[1])
    IN  IF t # <<>> THEN t
        ELSE IF h = <<>> THEN Werkdienst
        ELSE IF h[1] >= 18 \/ h[1] < 6 THEN Nachtdienst
        ELSE Dagdienst

\* lines 234-236
_norm_time(x) ==
    LET s == str(x)
        p == SkipSpaces(s, 1)
        n == TimeTokAt(s, p)
        hm == split(SubSeq(s, p, p + n - 1), ":")
    IN  IF n = 0 THEN s
        ELSE Fmt(DigitsVal(hm[1]), 2) \o <<":">> \o Fmt(DigitsVal(hm[2]), 2)

\* lines 211-238: one row of norm
NormRow(table, gm, r) ==
    [date |-> Pick(table, gm, 1, r),
     start |-> _norm_time(Pick(table, gm, 2, r)),
     end |-> _norm_time(Pick(table, gm, 3, r)),
     title |-> _auto_title(Pick(table, gm, 4, r), Pick(table, gm, 2, r)),
     location |-> Pick(table, gm, 5, r),
     notes |-> Pick(table, gm, 6, r)]

\* norm has the rows of the table once one field has a column
NormRows(table, gm) ==
    IF \A f \in 1..Len(Fields) : gm[Fields[f]] = <<>> THEN <<>>
    ELSE [r \in 1..Len(table.rows) |-> NormRow(table, gm, r)]

\* lines 206-238: one run of the script on the uploaded table
ScriptRun ==
    /\ parsed_rows # <<>>
    /\ Len(g) < MaxRuns
    /\ LET table == parsed_rows[1]
           gm == guess_columns(table.cols, hashseed)
       IN  /\ g' = Append(g, [seed |-> hashseed, map |-> gm])
           /\ norm' = <<NormRows(table, gm)>>
    /\ UNCHANGED <<parsed_rows, hashseed>>
    /\ UNCHANGED <<pdfVars, icsVars>>

\* the server process is started again: another hash seed, the upload is kept
\* by the user and sent again
Restart ==
    /\ parsed_rows # <<>>
    /\ hashseed' = 1 - hashseed
    /\ norm' = <<>>
    /\ UNCHANGED <<parsed_rows, g>>
    /\ UNCHANGED <<pdfVars, icsVars>>

RECURSIVE Product(_)
Product(sets) ==
    IF sets = <<>> THEN {<<>>}
    ELSE {<<x>> \o rest : x \in Head(sets), rest \in Product(Tail(sets))}

IsoDay == <<"2","0","2","4","-","0","3","-","0","5">>

\* the headers of the uploaded tables, each with the cells of its columns
Sheets == {
    \* Datum, Van, Tot
    [cols |-> << <<"D","a","t","u","m">>, <<"V","a","n">>, <<"T","o","t">> >>,
     cells |-> << {IsoDay},
                  {T2200, <<"8",":","0","0">>, <<"a","b","c">>},
                  {T0600} >>],
    \* Dag, Datum, Van, Tot, Titel
    [cols |-> << <<"D","a","g">>, <<"D","a","t","u","m">>, <<"V","a","n">>,
                 <<"T","o","t">>, <<"T","i","t","e","l">> >>,
     cells |-> << {<<"d","i">>},
                  {IsoDay},
                  {<<"0","5",":","5","9">>, <<"1","8",":","0","0">>},
                  {T1600},
                  {<<>>, <<" ","V","r","o","e","g"," ">>, NaN} >>],
    \* Foo, Start Time, Eind-tijd, Shift
    [cols |-> << <<"F","o","o">>, <<"S","t","a","r","t"," ","T","i","m","e">>,
                 <<"E","i","n","d","-","t","i","j","d">>, <<"S","h","i","f","t">> >>,
     cells |-> << {<<"x">>},
                  {<<"1","7",":","5","9">>, <<"6",":","0","0">>, NaN},
                  {T1600},
                  {NaN, <<" ">>} >>]
}

\* the tables read_csv / read_excel return: one of Sheets with 1..MaxTableRows rows
SheetTables(sh) ==
    {[cols |-> sh.cols, rows |-> rs] :
        rs \in UNION {[1..n -> Product(sh.cells)] : n \in 1..MaxTableRows}}

Uploads == UNION {SheetTables(sh) : sh \in Sheets}

InitCols ==
    /\ parsed_rows \in {<<t>> : t \in Uploads}
    /\ hashseed \in {0, 1}
    /\ g = <<>>
    /\ norm = <<>>
    /\ PdfIdle
    /\ IcsIdle

NextCols == ScriptRun \/ Restart

SpecCols == InitCols /\ [][NextCols]_vars

(***************************************************************************)
(* Properties of the reconciler (SpecCols).                                *)
(***************************************************************************)
IsAliasOf(name, want) ==
    name \in Range(COLUMN_ALIASES[want]) \/ name = FieldName[want]

\* C9 (as claimed): every field is mapped to a column whose normalised name
\* is one of the field's aliases, is left unmapped exactly when no column's
\* normalised name is an alias of the field or the field name, and the
\* result is the same on every run for the same table.
C9_GuessDeterministic ==
    /\ \A r \in 1..Len(g) :
          \A f \in 1..Len(Fields) :
              LET want == Fields[f]
                  cols == parsed_rows[1].cols
              IN  /\ g[r].map[want] # <<>> =>
                        /\ g[r].map[want][1] \in Range(cols)
                        /\ IsAliasOf(_norm(g[r].map[want][1]), want)
                  /\ (g[r].map[want] = <<>>) <=>
                        (\A k \in 1..Len(cols) : ~IsAliasOf(_norm(cols[k]), want))
    /\ \A r1 \in 1..Len(g), r2 \in 1..Len(g) : g[r1].map = g[r2].map

\* the title is missing: an empty cell, or nothing but blanks
TitleMissing(t) == t = NaN \/ strip(t) = <<>>

\* the hour of a start that can be read
HourOf(x) == int(split(str(x), ":")[1])

\* C7 (as claimed): a row whose title is missing after the columns have been
\* picked gets Nachtdienst for a start hour in 18..23 or 0..5, Dagdienst for
\* 6..17, and Werkdienst only when the start cannot be read; a title the
\* table supplies is kept.
C7_AutoTitle ==
    norm # <<>> =>
        \A r \in 1..Len(norm[1]) :
            LET gm == g[Len(g)].map
                t == Pick(parsed_rows[1], gm, 4, r)
                h == HourOf(Pick(parsed_rows[1], gm, 2, r))
            IN  IF TitleMissing(t)
                THEN /\ (h # <<>> /\ (h[1] \in 18..23 \/ h[1] \in 0..5)) =>
                            norm[1][r].title = Nachtdienst
                     /\ (h # <<>> /\ h[1] \in 6..17) => norm[1][r].title = Dagdienst
                     /\ norm[1][r].title = Werkdienst => h = <<>>
                ELSE norm[1][r].title = strip(t)

====
